---- MODULE Spec2Model ----
(***************************************************************************)
(* token-cell: token kinds (runtime_token, singleton_token, unsafe_token   *)
(* of src/src/macros.rs), the TokenCell of src/src/core.rs and the         *)
(* deferred maps of src/src/monads.rs, as a state machine.                 *)
(*                                                                         *)
(* A token instance is a record [kind, id, serial, owner]: `id` is what    *)
(* identifier() returns, `serial` numbers the constructions (two records   *)
(* are the same instance iff their serials agree) and `owner` is the       *)
(* thread that holds it.  A cell is a record [kind, token_id, inner,       *)
(* maker]: token_id and inner are the struct's fields, `maker` remembers   *)
(* the serial of the token passed to TokenCell::new.  A borrow is a live   *)
(* `&T` / `&mut T` / guard obtained from a cell with a token reference;    *)
(* the guards of the actions that create, use and end borrows are the      *)
(* borrow checker's rules for `&Token` and `&mut Token`.                   *)
(***************************************************************************)
EXTENDS Integers, FiniteSets, Sequences, TLC

\* ------------------------------------------------------------------ bounds
\* Constructions explored from each initial state.
MaxInstances == 3
\* Token instances alive at once (runtime and unsafe kinds).
MaxTokens == 2
\* Borrows alive at once.
MaxBorrows == 2
\* Failed try_apply calls on one map value.
MaxRetries == 2

\* AtomicU16: the width of COUNTER.
U16Modulus == 65536

Threads == {"A", "B"}
MainThread == "A"
CellIds == {1, 2}
\* The places of the program's TokenMap and of its TokenMapMut.
MapIds == {"map", "map_mut"}
Values == {10, 20}
\* The closures given to map and map_mut.
ImmOps == {"deref", "plus_one"}
MutOps == {"set9", "take10"}
\* The closures given to with_token.
Bodies == {"seven", "ident", "escape", "forget"}

\* ------------------------------------------------------------------ state
VARIABLES
    COUNTER,     \* runtime_token: static COUNTER: AtomicU16
    AVAILABLE,   \* singleton_token: static AVAILABLE: AtomicBool
    otherStatics, \* the COUNTER and the AVAILABLE of a second kind of each
    tokens,      \* the live token instances
    cells,       \* CellIds -> the cell in that place, or NoCell
    borrows,     \* the live references and guards into cells
    maps,        \* the live TokenMap / TokenMapMut values
    mapLog,      \* per map place: mapLog of the operation, failed tries, outcome
    nextSerial,  \* number of token instances constructed so far
    lastOp       \* the last call and what it returned

vars == <<COUNTER, AVAILABLE, otherStatics, tokens, cells, borrows, maps, mapLog, nextSerial, lastOp>>

\* ------------------------------------------------------------------ values
\* The unit value `()`, the Identifier of singleton and unsafe tokens.
UnitId == 0

NoErr == [tag |-> "none", cell |-> 0, token |-> 0]
IdMismatch(cell, token) == [tag |-> "IdMismatch", cell |-> cell, token |-> token]
SingletonUnavailable == [tag |-> "SingletonUnavailable", cell |-> 0, token |-> 0]
\* GhostToken::ConstructionError is `()`.
UnitError == [tag |-> "()", cell |-> 0, token |-> 0]
\* What Result::unwrap panics with on an Err.
Panic(e) == [tag |-> "panic", cell |-> e.cell, token |-> e.token]

\* Result: Ok(v) and Err(e); an Err carries no value.
Ok(v) == [ok |-> TRUE, val |-> v, err |-> NoErr]
Err(e) == [ok |-> FALSE, val |-> -1, err |-> e]

\* The statics of the modules of a second runtime_token kind and a second
\* singleton_token kind, as the program starts: AtomicU16::new(0) and
\* AtomicBool::new(true).
NoStatics == [COUNTER |-> 0, AVAILABLE |-> TRUE]

\* An empty place.  kind, token_id and inner are TokenCell's fields (kind is
\* its Token type parameter); maker, written and denied record its history:
\* the serial of the token given to new, the value last written through a
\* successful mutable access, and whether a comparison on it has failed.
\* `inner` is the value in memory; a store to it that a thread has issued
\* and that has not reached memory yet is `pending`, issued by `writer`.
NoCell == [kind |-> "none", token_id |-> 0, inner |-> 0,
           maker |-> -1, written |-> 0, denied |-> FALSE,
           pending |-> 0, writer |-> "none"]

\* An empty map place; a map value holds `cell: &Cell` and the operation `f`.
\* `made` remembers the cell's value when the map was made.
NoMap == [cell |-> 0, f |-> "none", mut |-> FALSE, made |-> 0]
\* What happened to the map value last made in a place: how often its
\* operation ran and how many try_apply calls on it failed.
NoLog == [runs |-> 0, tries |-> 0]

\* The record of a call: who called what on which token, cell and map, the
\* operation of the map, the Result returned, the cell an into_inner
\* consumed, and the cell's value when the applied map was made.  For the
\* calls on a token kind (new, with_token, drop): the kind, the closure given
\* and how many times it was invoked.
Op(name, by, tok, cell, res) ==
    [op |-> name, by |-> by, tok |-> tok, cell |-> cell, map |-> "none",
     f |-> "none", res |-> res, was |-> NoCell, made |-> 0,
     kind |-> "none", ran |-> 0]

\* ------------------------------------------------------------------ token kinds
\* runtime_token::new with the fetch_add replaced by a load: the value is
\* read and the counter stays.
runtime_token_new_load(counter) ==
    [result |-> Ok(counter), counter |-> counter]

\* runtime_token::new: COUNTER.fetch_add(1, Relaxed) returns the previous
\* value and wraps around at the width of the atomic.
runtime_token_new(counter) ==
    [result |-> Ok(counter), counter |-> (counter + 1) % U16Modulus]

\* singleton_token::new with the swap replaced by a load: the flag is read
\* but not taken.
singleton_token_new_load(available) ==
    [result |-> IF available THEN Ok(UnitId) ELSE Err(SingletonUnavailable),
     available |-> available]

\* singleton_token::new that ignores what the swap returned.
singleton_token_new_unchecked(available) ==
    [result |-> Ok(UnitId), available |-> FALSE]

\* singleton_token::new that puts back what it did not find: a failed
\* attempt leaves the flag set.
singleton_token_new_restore(available) ==
    [result |-> IF available THEN Ok(UnitId) ELSE Err(SingletonUnavailable),
     available |-> ~available]

\* singleton_token::new: AVAILABLE.swap(false, Relaxed) decides the result.
singleton_token_new(available) ==
    [result |-> IF available THEN Ok(UnitId) ELSE Err(SingletonUnavailable),
     available |-> FALSE]

\* A destructor that does not touch the flag.
singleton_token_drop_nostore(available) == available

\* Drop for a singleton token: AVAILABLE.store(true, Relaxed).
singleton_token_drop(available) == TRUE

\* The Ordering given to that store, and whether a store of that ordering
\* becomes visible only after the stores its thread issued before it.
DropOrdering == "Relaxed"
OrdersEarlierStores(ordering) == ordering \in {"Release", "AcqRel", "SeqCst"}

\* One module, and so one static, for all the kinds of a strategy.
ModuleOf_strategy(kind) ==
    CASE kind = "runtime2" -> "runtime"
      [] kind = "singleton2" -> "singleton"
      [] OTHER -> kind

\* The module that holds the static of a kind: runtime_token! and
\* singleton_token! declare `mod [<__ $id _mod__ >]` with the static in it
\* for each name they are given.
ModuleOf(kind) == kind

\* unsafe_token::new: Ok($id(())), no state.
unsafe_token_new == Ok(UnitId)

\* TokenTrait::identifier: self.0
identifier(tok) == tok.id

\* runtime_token::compare with the two fields of the error exchanged.
runtime_token_compare_swapped(tok, id) ==
    IF tok.id = id THEN Ok(UnitId) ELSE Err(IdMismatch(tok.id, id))

\* runtime_token::compare
runtime_token_compare(tok, id) ==
    IF tok.id = id THEN Ok(UnitId) ELSE Err(IdMismatch(id, tok.id))

\* A compare of a unit-identified kind that tells the instances apart.
unit_token_compare_serial(tok, id) ==
    IF tok.serial = id THEN Ok(UnitId) ELSE Err(IdMismatch(id, tok.serial))

\* singleton_token::compare and unsafe_token::compare: Ok(())
unit_token_compare(tok, id) == Ok(UnitId)

\* TokenTrait::compare, by the kind of the token.
compare(tok, id) ==
    IF tok.kind = "runtime" THEN runtime_token_compare(tok, id)
    ELSE unit_token_compare(tok, id)

\* GhostToken::new that builds an instance.
ghost_token_new_ok == Ok(UnitId)

\* GhostToken::new: Err(())
ghost_token_new == Err(UnitError)

\* lib.rs, singleton_token::new: the same swap as in macros.rs.
lib_singleton_token_new(available) ==
    [result |-> IF available THEN Ok(UnitId) ELSE Err(SingletonUnavailable),
     available |-> FALSE]

\* lib.rs declares no Drop for its singleton token: the value going out of
\* scope runs no code.
lib_singleton_token_drop(available) == available

\* ------------------------------------------------------------------ with_token
\* What a closure given to with_token does with the instance of identifier
\* `id` it receives by value: the value it returns and what becomes of the
\* instance.  seven: |_t| 7;  ident: |t| t.identifier();  escape: |t| t (the
\* instance is the return value);  forget: |t| core::mem::forget(t).
BodyOp(body, id) ==
    CASE body = "seven"  -> [ret |-> 7, fate |-> "dropped"]
      [] body = "ident"  -> [ret |-> id, fate |-> "dropped"]
      [] body = "escape" -> [ret |-> id, fate |-> "returned"]
      [] body = "forget" -> [ret |-> UnitId, fate |-> "forgotten"]

\* Result::map: Ok(v) => Ok(f(v)), Err(e) => Err(e); `v` is what f returns.
Result_map(r, v) == IF r.ok THEN Ok(v) ELSE Err(r.err)

\* The outcome of a with_token: the Result, the kind's static afterwards,
\* whether an instance was made, how many times the closure was invoked and
\* what became of the instance.
Scoped(result, state, made, body, id) ==
    [result |-> result, state |-> state, made |-> made,
     ran |-> IF made THEN 1 ELSE 0,
     fate |-> IF made THEN BodyOp(body, id).fate ELSE "none"]

\* runtime_token::with_token that constructs twice.
runtime_token_with_token_twice(counter, body) ==
    LET n == runtime_token_new(runtime_token_new(counter).counter)
    IN Scoped(Result_map(n.result, BodyOp(body, n.result.val).ret),
              n.counter, n.result.ok, body, n.result.val)

\* runtime_token::with_token: Self::new().map(f)
runtime_token_with_token(counter, body) ==
    LET n == runtime_token_new(counter)
    IN Scoped(Result_map(n.result, BodyOp(body, n.result.val).ret),
              n.counter, n.result.ok, body, n.result.val)

\* singleton_token::with_token that keeps the instance from its destructor.
singleton_token_with_token_held(available, body) ==
    LET n == singleton_token_new(available)
    IN Scoped(Result_map(n.result, BodyOp(body, n.result.val).ret),
              n.available, n.result.ok, body, n.result.val)

\* singleton_token::with_token: Self::new().map(f).  The instance is moved
\* into f; when f lets it go out of scope its destructor runs.
singleton_token_with_token(available, body) ==
    LET n == singleton_token_new(available)
        dropped == n.result.ok /\ BodyOp(body, n.result.val).fate = "dropped"
    IN Scoped(Result_map(n.result, BodyOp(body, n.result.val).ret),
              IF dropped THEN singleton_token_drop(n.available) ELSE n.available,
              n.result.ok, body, n.result.val)

\* unsafe_token::with_token: Self::new().map(f)
unsafe_token_with_token(body) ==
    LET n == unsafe_token_new
    IN Scoped(Result_map(n, BodyOp(body, n.val).ret), UnitId, n.ok, body, n.val)

\* GhostToken::with_token: Ok(f(Self(InvariantLifetime::new())))
ghost_token_with_token(body) ==
    Scoped(Ok(BodyOp(body, UnitId).ret), UnitId, TRUE, body, UnitId)

\* The brand of the instance that the with_token of lib.rs hands to its
\* closure, F: FnOnce(Self) -> R: the brand of Self, which the caller's
\* types fix and which is one and the same for every invocation.
lib_ghost_token_with_token_brand(invocation) == 0

\* The brand of the instance that GhostToken::with_token hands to its
\* closure, F: for<'a> FnOnce(Self::Branded<'a>) -> R with Branded<'a> =
\* GhostToken<'a>: the closure is checked against a brand of its own, that
\* of this invocation.  The brand is the type of the token's identifier.
ghost_token_with_token_brand(invocation) == invocation

\* InvariantLifetime<'a>(PhantomData<UnsafeCell<&'a ()>>) is invariant in
\* 'a: an InvariantLifetime<'b> is accepted where an InvariantLifetime<'a>
\* is expected only when 'b is 'a.
InvariantLifetime_accepts(a, b) == a = b

\* ------------------------------------------------------------------ cells
\* MapLikely::map_likely for Result: Ok(v) => Ok(f(v)), Err(e) => Err(e);
\* `v` is what the closure returns.
map_likely(r, v) == IF r.ok THEN Ok(v) ELSE Err(r.err)

\* TokenCell::new that stores the default identifier instead of the token's.
TokenCell_new_default(inner, tok) ==
    [kind |-> tok.kind, token_id |-> 0, inner |-> inner]

\* TokenCellTrait::new for TokenCell
TokenCell_new(inner, tok) ==
    [kind |-> tok.kind, token_id |-> identifier(tok), inner |-> inner]

\* A write that lands in a copy of the value instead of the cell.
deref_mut_write_copy(cell, v) == cell

\* `*r = v` through `&mut *self.inner.get()` (try_borrow_mut, deref_mut) or
\* through UnsafeCell::get_mut (get_mut).
deref_mut_write(cell, v) == [cell EXCEPT !.inner = v]

\* into_inner that unwraps the wrong field.
TokenCell_into_inner_id(cell) == cell.token_id

\* TokenCell::into_inner: self.inner.into_inner()
TokenCell_into_inner(cell) == cell.inner

\* The cell in a place: the struct and its history.
Placed(cell, maker, written) ==
    [kind |-> cell.kind, token_id |-> cell.token_id, inner |-> cell.inner,
     maker |-> maker, written |-> written, denied |-> FALSE,
     pending |-> 0, writer |-> "none"]

\* The value of the cell that thread t reads: its own store in flight, or
\* what is in memory.
Seen(cell, t) == IF cell.writer = t THEN cell.pending ELSE cell.inner

\* Whether `cell.try_*(&tok)` is a well-typed call: try_* of TokenCell<T,
\* Token> takes a reference to that same Token, and the Token of a cell made
\* with a GhostToken<'a> is GhostToken<'a>, the type of its token_id being
\* InvariantLifetime<'a>.
TypeChecks(cell, tok) ==
    /\ cell.kind = tok.kind
    /\ tok.kind = "ghost" => InvariantLifetime_accepts(cell.token_id, identifier(tok))

\* A reference or guard into cell `c` made with token `tok`.
Borrow(c, tok, by, mut, guard) ==
    [cell |-> c, tok |-> tok.serial, by |-> by, mut |-> mut, guard |-> guard]

\* TokenCell::try_guard / try_borrow / try_guard_mut / try_borrow_mut:
\* token.compare(&self.token_id).map_likely(|_| <guard or reference>).  The
\* val of an Ok is the cell's value the guard or reference gives access to.
\* try_guard_unchecked builds the guard whatever the comparison says.
try_guard_unchecked(cell, tok) == Ok(cell.inner)
try_guard(cell, tok) == map_likely(compare(tok, cell.token_id), cell.inner)
try_borrow(cell, tok) == map_likely(compare(tok, cell.token_id), cell.inner)
try_guard_mut(cell, tok) == map_likely(compare(tok, cell.token_id), cell.inner)
try_borrow_mut(cell, tok) == map_likely(compare(tok, cell.token_id), cell.inner)

\* Result::unwrap that hands out the value of an Err too.
unwrap_lenient(r) == Ok(r.val)

\* Result::unwrap: the Ok as it is, a panic carrying the error otherwise.
unwrap(r) == IF r.ok THEN r ELSE Err(Panic(r.err))

\* TokenCellTrait::borrow / borrow_mut: self.try_borrow(token).unwrap()
borrow(cell, tok) == unwrap(try_borrow(cell, tok))
borrow_mut(cell, tok) == unwrap(try_borrow_mut(cell, tok))

\* TokenGuard::token / TokenGuardMut::token, token_mut: self.token
TokenGuard_token(b) == b.tok

TokenOf(serial) == CHOOSE k \in tokens : k.serial = serial
Live(serial) == \E k \in tokens : k.serial = serial
BorrowsOfToken(k) == {b \in borrows : b.tok = k.serial}
BorrowsOfCell(c) == {b \in borrows : b.cell = c}
MapsOfCell(c) == {m \in MapIds : maps[m] # NoMap /\ maps[m].cell = c}
KindTokens(kind) == {k \in tokens : k.kind = kind}

\* ------------------------------------------------------------------ deferred maps
\* What a closure does with the guard it is given: the value it returns and
\* the cell's value it leaves.  deref: |g| *g;  plus_one: |g| *g + 1;
\* set9: |mut g| *g = 9 (example.rs);  take10: |mut g| replace(&mut *g, 10).
ApplyOp(f, v) ==
    CASE f = "deref"    -> [ret |-> v, inner |-> v]
      [] f = "plus_one" -> [ret |-> v + 1, inner |-> v]
      [] f = "set9"     -> [ret |-> UnitId, inner |-> 9]
      [] f = "take10"   -> [ret |-> v, inner |-> 10]

\* TokenCellTrait::map / map_mut: TokenMap { cell: self, f, marker }
TokenCell_map(c, f, mut) == [cell |-> c, f |-> f, mut |-> mut]

\* map / map_mut that runs the operation at once and keeps its result.
TokenCell_map_eager_effect(cell, f) == ApplyOp(f, cell.inner).inner

\* The cell's value after map / map_mut: untouched.
TokenCell_map_effect(cell, f) == cell.inner

\* TokenMap::try_apply that runs the operation before looking at the guard.
TokenMap_try_apply_eager(map, cell, tok) ==
    LET g == try_guard(cell, tok)
        r == ApplyOp(map.f, cell.inner)
    IN IF g.ok
       THEN [result |-> Ok(r.ret), inner |-> r.inner, ran |-> TRUE, back |-> FALSE]
       ELSE [result |-> Err(g.err), inner |-> r.inner, ran |-> TRUE, back |-> TRUE]

\* TokenMap::try_apply: match self.cell.try_guard(token) { Ok(borrowed) =>
\* Ok((self.f)(borrowed)), Err(e) => Err((self, e)) }.  `back` says that the
\* map is handed back to the caller.
TokenMap_try_apply(map, cell, tok) ==
    LET g == try_guard(cell, tok)
    IN IF g.ok
       THEN [result |-> Ok(ApplyOp(map.f, g.val).ret),
             inner |-> ApplyOp(map.f, g.val).inner, ran |-> TRUE, back |-> FALSE]
       ELSE [result |-> Err(g.err), inner |-> cell.inner, ran |-> FALSE, back |-> TRUE]

\* TokenMapMut::try_apply: let borrowed = self.cell.try_guard_mut(token)?;
\* Ok((self.f)(borrowed)).  The map is consumed either way.
TokenMapMut_try_apply(map, cell, tok) ==
    LET g == try_guard_mut(cell, tok)
    IN IF g.ok
       THEN [result |-> Ok(ApplyOp(map.f, g.val).ret),
             inner |-> ApplyOp(map.f, g.val).inner, ran |-> TRUE, back |-> FALSE]
       ELSE [result |-> Err(g.err), inner |-> cell.inner, ran |-> FALSE, back |-> FALSE]

\* apply that uses the value the cell held when the map was made.
TokenMap_apply_stale(map, cell, tok, made) ==
    [result |-> Ok(ApplyOp(map.f, made).ret),
     inner |-> ApplyOp(map.f, made).inner, ran |-> TRUE, back |-> FALSE]

\* TokenMap::apply / TokenMapMut::apply: try_guard(token).unwrap_unchecked(),
\* then (self.f)(borrowed).  Token::ComparisonError is Infallible here.
TokenMap_apply(map, cell, tok, made) ==
    LET g == IF map.mut THEN try_guard_mut(cell, tok) ELSE try_guard(cell, tok)
    IN [result |-> Ok(ApplyOp(map.f, g.val).ret),
        inner |-> ApplyOp(map.f, g.val).inner, ran |-> TRUE, back |-> FALSE]

\* ------------------------------------------------------------------ actions
\* The constructions explored: the first MaxInstances of the program, and
\* MaxInstances more from the 65535th on.
WrapStart == U16Modulus - 1
InWindow(n) == n < MaxInstances \/ (WrapStart <= n /\ n < WrapStart + MaxInstances)

\* S::new() by thread t, S a singleton_token kind.
SingletonNew(t) ==
    /\ InWindow(nextSerial)
    /\ LET r == singleton_token_new(AVAILABLE)
       IN /\ AVAILABLE' = r.available
          /\ IF r.result.ok
             THEN /\ tokens' = tokens \cup
                        {[kind |-> "singleton", id |-> r.result.val,
                          serial |-> nextSerial, owner |-> t]}
                  /\ nextSerial' = nextSerial + 1
             ELSE UNCHANGED <<tokens, nextSerial>>
          /\ lastOp' = [Op("new", t, IF r.result.ok THEN nextSerial ELSE -1, 0, r.result)
                          EXCEPT !.kind = "singleton"]
    /\ UNCHANGED <<COUNTER, cells, borrows, maps, mapLog, otherStatics>>

\* A token goes out of scope in its owner: no reference to it is left.
\* Only the singleton kind of macros.rs has a destructor.
TokenDrop(k) ==
    /\ BorrowsOfToken(k) = {}
    /\ (k.kind = "singleton" /\ OrdersEarlierStores(DropOrdering)) =>
          \A c \in CellIds : cells[c].writer # k.owner
    /\ tokens' = tokens \ {k}
    /\ AVAILABLE' = CASE k.kind = "singleton" -> singleton_token_drop(AVAILABLE)
                      [] k.kind = "lib_singleton" -> lib_singleton_token_drop(AVAILABLE)
                      [] OTHER -> AVAILABLE
    /\ lastOp' = [Op("drop", k.owner, k.serial, 0, Ok(UnitId)) EXCEPT !.kind = k.kind]
    /\ UNCHANGED <<COUNTER, cells, borrows, maps, mapLog, nextSerial, otherStatics>>

\* TokenCell::new(v, &k) in place c.
CellNew(t, k, c, v) ==
    /\ cells[c] = NoCell
    /\ \A b \in BorrowsOfToken(k) : ~b.mut
    /\ cells' = [cells EXCEPT ![c] = Placed(TokenCell_new(v, k), k.serial, v)]
    /\ lastOp' = Op("cell_new", t, k.serial, c, Ok(v))
    /\ UNCHANGED <<COUNTER, AVAILABLE, tokens, borrows, maps, mapLog, nextSerial, otherStatics>>

\* cell.try_borrow(&k) / cell.try_guard(&k) by thread t: `&k` may be lent to
\* any thread, as long as no `&mut k` is alive.
TryShared(t, k, c, guard) ==
    /\ cells[c] # NoCell /\ cells[c].kind = k.kind
    /\ \A b \in BorrowsOfToken(k) : ~b.mut
    /\ Cardinality(borrows) < MaxBorrows
    /\ LET r == IF guard THEN try_guard(cells[c], k) ELSE try_borrow(cells[c], k)
       IN /\ borrows' = IF r.ok THEN borrows \cup {Borrow(c, k, t, FALSE, guard)}
                        ELSE borrows
          /\ cells' = [cells EXCEPT ![c].denied = @ \/ ~r.ok]
          /\ lastOp' = Op(IF guard THEN "try_guard" ELSE "try_borrow", t, k.serial, c, r)
    /\ UNCHANGED <<COUNTER, AVAILABLE, tokens, maps, mapLog, nextSerial, otherStatics>>

\* cell.try_borrow_mut(&mut k) / cell.try_guard_mut(&mut k): `&mut k` exists
\* only while no other reference to k does.
TryMut(t, k, c, guard) ==
    /\ cells[c] # NoCell /\ cells[c].kind = k.kind
    /\ k.owner = t
    /\ BorrowsOfToken(k) = {}
    /\ Cardinality(borrows) < MaxBorrows
    /\ LET r == IF guard THEN try_guard_mut(cells[c], k) ELSE try_borrow_mut(cells[c], k)
       IN /\ borrows' = IF r.ok THEN borrows \cup {Borrow(c, k, t, TRUE, guard)}
                        ELSE borrows
          /\ cells' = [cells EXCEPT ![c].denied = @ \/ ~r.ok]
          /\ lastOp' = Op(IF guard THEN "try_guard_mut" ELSE "try_borrow_mut",
                          t, k.serial, c, r)
    /\ UNCHANGED <<COUNTER, AVAILABLE, tokens, maps, mapLog, nextSerial, otherStatics>>

\* cell.borrow(&k) by thread t.  A panic unwinds out of the call: nothing is
\* borrowed.
BorrowShared(t, k, c) ==
    /\ cells[c] # NoCell /\ cells[c].kind = k.kind
    /\ \A b \in BorrowsOfToken(k) : ~b.mut
    /\ Cardinality(borrows) < MaxBorrows
    /\ LET r == borrow(cells[c], k)
       IN /\ borrows' = IF r.ok THEN borrows \cup {Borrow(c, k, t, FALSE, FALSE)}
                        ELSE borrows
          /\ cells' = [cells EXCEPT ![c].denied = @ \/ ~r.ok]
          /\ lastOp' = Op("borrow", t, k.serial, c, r)
    /\ UNCHANGED <<COUNTER, AVAILABLE, tokens, maps, mapLog, nextSerial, otherStatics>>

\* cell.borrow_mut(&mut k) by thread t.
BorrowMut(t, k, c) ==
    /\ cells[c] # NoCell /\ cells[c].kind = k.kind
    /\ k.owner = t
    /\ BorrowsOfToken(k) = {}
    /\ Cardinality(borrows) < MaxBorrows
    /\ LET r == borrow_mut(cells[c], k)
       IN /\ borrows' = IF r.ok THEN borrows \cup {Borrow(c, k, t, TRUE, FALSE)}
                        ELSE borrows
          /\ cells' = [cells EXCEPT ![c].denied = @ \/ ~r.ok]
          /\ lastOp' = Op("borrow_mut", t, k.serial, c, r)
    /\ UNCHANGED <<COUNTER, AVAILABLE, tokens, maps, mapLog, nextSerial, otherStatics>>

\* guard.token() (m false) or guard.token_mut() (m true) on a live guard; the
\* val of the Ok is the identifier of the token reborrowed.
GuardToken(b, m) ==
    /\ b.guard
    /\ m => b.mut
    /\ lastOp' = Op(IF m THEN "token_mut" ELSE "token", b.by, TokenGuard_token(b), b.cell,
                    Ok(identifier(TokenOf(TokenGuard_token(b)))))
    /\ UNCHANGED <<COUNTER, AVAILABLE, tokens, cells, borrows, maps, mapLog, nextSerial, otherStatics>>

\* `*r = v` through a live `&mut T` or TokenGuardMut (deref_mut).
Write(b, v) ==
    /\ b.mut
    /\ cells' = [cells EXCEPT ![b.cell] =
                    [deref_mut_write(@, v) EXCEPT !.written = v]]
    /\ lastOp' = Op("write", b.by, b.tok, b.cell, Ok(v))
    /\ UNCHANGED <<COUNTER, AVAILABLE, tokens, borrows, maps, mapLog, nextSerial, otherStatics>>

\* `*r = v` through a live `&mut T` or TokenGuardMut, a plain store: it is
\* issued here and reaches memory in a later step.  A thread's later store
\* to the cell replaces its earlier one.
WriteLate(b, v) ==
    /\ b.mut
    /\ cells[b.cell].writer \in {"none", b.by}
    /\ cells' = [cells EXCEPT ![b.cell] =
                    [@ EXCEPT !.pending = v, !.writer = b.by, !.written = v]]
    /\ lastOp' = Op("write", b.by, b.tok, b.cell, Ok(v))
    /\ UNCHANGED <<COUNTER, AVAILABLE, tokens, borrows, maps, mapLog, nextSerial, otherStatics>>

\* The store in flight to cell c reaches memory.
Land(c) ==
    /\ cells[c].writer # "none"
    /\ cells' = [cells EXCEPT ![c] =
                    [deref_mut_write(cells[c], cells[c].pending)
                        EXCEPT !.pending = 0, !.writer = "none"]]
    /\ lastOp' = Op("land", cells[c].writer, -1, c, Ok(cells[c].pending))
    /\ UNCHANGED <<COUNTER, AVAILABLE, tokens, borrows, maps, mapLog, nextSerial, otherStatics>>

\* `*r` through a live reference or guard (deref).
Read(b) ==
    /\ lastOp' = Op("read", b.by, b.tok, b.cell, Ok(Seen(cells[b.cell], b.by)))
    /\ UNCHANGED <<COUNTER, AVAILABLE, tokens, cells, borrows, maps, mapLog, nextSerial, otherStatics>>

\* The reference or guard goes out of scope.
EndBorrow(b) ==
    /\ borrows' = borrows \ {b}
    /\ lastOp' = Op("end_borrow", b.by, b.tok, b.cell, Ok(UnitId))
    /\ UNCHANGED <<COUNTER, AVAILABLE, tokens, cells, maps, mapLog, nextSerial, otherStatics>>

\* K::new() by thread t, K a runtime_token kind.
RuntimeNew(t) ==
    /\ InWindow(nextSerial)
    /\ Cardinality(tokens) < MaxTokens
    /\ LET r == runtime_token_new(COUNTER)
       IN /\ COUNTER' = r.counter
          /\ tokens' = tokens \cup
                {[kind |-> "runtime", id |-> r.result.val,
                  serial |-> nextSerial, owner |-> t]}
          /\ nextSerial' = nextSerial + 1
          /\ lastOp' = [Op("new", t, nextSerial, 0, r.result) EXCEPT !.kind = "runtime"]
    /\ UNCHANGED <<AVAILABLE, cells, borrows, maps, mapLog, otherStatics>>

\* `*cell.get_mut() = v`: needs `&mut cell`, so no reference to the cell is
\* alive; no token is involved.
GetMut(t, c, v) ==
    /\ cells[c] # NoCell
    /\ BorrowsOfCell(c) = {} /\ MapsOfCell(c) = {}
    /\ cells' = [cells EXCEPT ![c] = [deref_mut_write(@, v) EXCEPT !.written = v]]
    /\ lastOp' = Op("get_mut", t, -1, c, Ok(v))
    /\ UNCHANGED <<COUNTER, AVAILABLE, tokens, borrows, maps, mapLog, nextSerial, otherStatics>>

\* cell.into_inner(): consumes the cell; no token is involved.
IntoInner(t, c) ==
    /\ cells[c] # NoCell
    /\ BorrowsOfCell(c) = {} /\ MapsOfCell(c) = {}
    /\ cells' = [cells EXCEPT ![c] = NoCell]
    /\ lastOp' = [Op("into_inner", t, -1, c, Ok(TokenCell_into_inner(cells[c])))
                    EXCEPT !.was = cells[c]]
    /\ UNCHANGED <<COUNTER, AVAILABLE, tokens, borrows, maps, mapLog, nextSerial, otherStatics>>

\* U::new() by thread t, U an unsafe_token kind.
UnsafeNew(t) ==
    /\ InWindow(nextSerial)
    /\ Cardinality(tokens) < MaxTokens
    /\ LET r == unsafe_token_new
       IN /\ tokens' = tokens \cup
                {[kind |-> "unsafe", id |-> r.val, serial |-> nextSerial, owner |-> t]}
          /\ lastOp' = [Op("new", t, nextSerial, 0, r) EXCEPT !.kind = "unsafe"]
    /\ nextSerial' = nextSerial + 1
    /\ UNCHANGED <<COUNTER, AVAILABLE, cells, borrows, maps, mapLog, otherStatics>>

\* GhostToken::new() by thread t.
GhostNew(t) ==
    /\ lastOp' = [Op("new", t, -1, 0, ghost_token_new) EXCEPT !.kind = "ghost"]
    /\ UNCHANGED <<COUNTER, AVAILABLE, tokens, cells, borrows, maps, mapLog, nextSerial, otherStatics>>

\* S::new() by thread t, S declared with the singleton_token macro of lib.rs.
LibSingletonNew(t) ==
    /\ InWindow(nextSerial)
    /\ LET r == lib_singleton_token_new(AVAILABLE)
       IN /\ AVAILABLE' = r.available
          /\ IF r.result.ok
             THEN /\ tokens' = tokens \cup
                        {[kind |-> "lib_singleton", id |-> r.result.val,
                          serial |-> nextSerial, owner |-> t]}
                  /\ nextSerial' = nextSerial + 1
             ELSE UNCHANGED <<tokens, nextSerial>>
          /\ lastOp' = [Op("new", t, IF r.result.ok THEN nextSerial ELSE -1, 0, r.result)
                          EXCEPT !.kind = "lib_singleton"]
    /\ UNCHANGED <<COUNTER, cells, borrows, maps, mapLog, otherStatics>>

\* K::with_token(body) by thread t, K of the given kind.  The closure of a
\* GhostToken cannot return the instance: its type carries the brand.
WithToken(t, kind, body) ==
    /\ InWindow(nextSerial)
    /\ kind = "ghost" => body # "escape"
    /\ LET r == CASE kind = "runtime"   -> runtime_token_with_token(COUNTER, body)
                  [] kind = "singleton" -> singleton_token_with_token(AVAILABLE, body)
                  [] kind = "unsafe"    -> unsafe_token_with_token(body)
                  [] kind = "ghost"     -> ghost_token_with_token(body)
       IN /\ r.fate = "returned" => Cardinality(tokens) < MaxTokens
          /\ COUNTER' = IF kind = "runtime" THEN r.state ELSE COUNTER
          /\ AVAILABLE' = IF kind = "singleton" THEN r.state ELSE AVAILABLE
          /\ tokens' = IF r.fate = "returned"
                       THEN tokens \cup {[kind |-> kind, id |-> r.result.val,
                                          serial |-> nextSerial, owner |-> t]}
                       ELSE tokens
          /\ nextSerial' = IF r.made THEN nextSerial + 1 ELSE nextSerial
          /\ lastOp' = [Op("with_token", t, IF r.made THEN nextSerial ELSE -1, 0, r.result)
                          EXCEPT !.kind = kind, !.f = body, !.ran = r.ran]
    /\ UNCHANGED <<cells, borrows, maps, mapLog, otherStatics>>

\* GhostToken::with_token(f) by thread t calls f with a new instance.  The
\* instance is f's parameter and stays f's until f returns.
GhostEnter(t) ==
    /\ InWindow(nextSerial)
    /\ Cardinality(tokens) < MaxTokens
    /\ tokens' = tokens \cup
          {[kind |-> "ghost", id |-> ghost_token_with_token_brand(nextSerial),
            serial |-> nextSerial, owner |-> t]}
    /\ nextSerial' = nextSerial + 1
    /\ lastOp' = [Op("with_token_call", t, nextSerial, 0, Ok(UnitId))
                    EXCEPT !.kind = "ghost"]
    /\ UNCHANGED <<COUNTER, AVAILABLE, cells, borrows, maps, mapLog, otherStatics>>

\* The closure of the innermost GhostToken::with_token returns and the call
\* returns Ok: the instance k is gone, and so is every cell made with it,
\* whose type names the brand and cannot leave the closure.
GhostExit(k) ==
    /\ k.kind = "ghost"
    /\ \A j \in tokens : j.serial <= k.serial
    /\ BorrowsOfToken(k) = {}
    /\ \A c \in CellIds : cells[c].maker = k.serial => BorrowsOfCell(c) = {}
    /\ tokens' = tokens \ {k}
    /\ cells' = [c \in CellIds |-> IF cells[c].maker = k.serial THEN NoCell ELSE cells[c]]
    /\ lastOp' = [Op("with_token_return", k.owner, k.serial, 0, Ok(UnitId))
                    EXCEPT !.kind = "ghost"]
    /\ UNCHANGED <<COUNTER, AVAILABLE, borrows, maps, mapLog, nextSerial, otherStatics>>

\* A call of try_borrow, try_borrow_mut or borrow_mut in a program that
\* compiles: the call is well typed.
TypedTryShared(t, k, c) == TypeChecks(cells[c], k) /\ TryShared(t, k, c, FALSE)
TypedTryMut(t, k, c) == TypeChecks(cells[c], k) /\ TryMut(t, k, c, FALSE)
TypedBorrowMut(t, k, c) == TypeChecks(cells[c], k) /\ BorrowMut(t, k, c)

\* The COUNTER and the AVAILABLE of module m.
CounterOf(m) == IF m = "runtime" THEN COUNTER ELSE otherStatics.COUNTER
FlagOf(m) == IF m = "singleton" THEN AVAILABLE ELSE otherStatics.AVAILABLE

\* K2::new() by thread t, K2 a second runtime_token kind.
SecondRuntimeNew(t) ==
    /\ InWindow(nextSerial)
    /\ Cardinality(tokens) < MaxTokens
    /\ LET m == ModuleOf("runtime2")
           r == runtime_token_new(CounterOf(m))
       IN /\ COUNTER' = IF m = "runtime" THEN r.counter ELSE COUNTER
          /\ otherStatics' = IF m = "runtime" THEN otherStatics
                              ELSE [otherStatics EXCEPT !.COUNTER = r.counter]
          /\ tokens' = tokens \cup
                {[kind |-> "runtime2", id |-> r.result.val,
                  serial |-> nextSerial, owner |-> t]}
          /\ nextSerial' = nextSerial + 1
          /\ lastOp' = [Op("new", t, nextSerial, 0, r.result) EXCEPT !.kind = "runtime2"]
    /\ UNCHANGED <<AVAILABLE, cells, borrows, maps, mapLog>>

\* S2::new() by thread t, S2 a second singleton_token kind.
SecondSingletonNew(t) ==
    /\ InWindow(nextSerial)
    /\ LET m == ModuleOf("singleton2")
           r == singleton_token_new(FlagOf(m))
       IN /\ AVAILABLE' = IF m = "singleton" THEN r.available ELSE AVAILABLE
          /\ otherStatics' = IF m = "singleton" THEN otherStatics
                              ELSE [otherStatics EXCEPT !.AVAILABLE = r.available]
          /\ IF r.result.ok
             THEN /\ tokens' = tokens \cup
                        {[kind |-> "singleton2", id |-> r.result.val,
                          serial |-> nextSerial, owner |-> t]}
                  /\ nextSerial' = nextSerial + 1
             ELSE UNCHANGED <<tokens, nextSerial>>
          /\ lastOp' = [Op("new", t, IF r.result.ok THEN nextSerial ELSE -1, 0, r.result)
                          EXCEPT !.kind = "singleton2"]
    /\ UNCHANGED <<COUNTER, cells, borrows, maps, mapLog>>

\* A token of K2 or S2 goes out of scope in its owner; S2 has the destructor
\* of a singleton_token kind.
SecondDrop(k) ==
    /\ k.kind \in {"runtime2", "singleton2"}
    /\ BorrowsOfToken(k) = {}
    /\ tokens' = tokens \ {k}
    /\ LET m == ModuleOf(k.kind)
           stores == k.kind = "singleton2"
       IN /\ AVAILABLE' = IF stores /\ m = "singleton"
                          THEN singleton_token_drop(AVAILABLE) ELSE AVAILABLE
          /\ otherStatics' = IF stores /\ m # "singleton"
                             THEN [otherStatics EXCEPT
                                     !.AVAILABLE = singleton_token_drop(@)]
                             ELSE otherStatics
    /\ lastOp' = [Op("drop", k.owner, k.serial, 0, Ok(UnitId)) EXCEPT !.kind = k.kind]
    /\ UNCHANGED <<COUNTER, cells, borrows, maps, mapLog, nextSerial>>

\* let map = cell.map(f) / cell.map_mut(f) in place m: takes `&cell` only.
MapNew(t, m, c, f, mut) ==
    /\ maps[m] = NoMap
    /\ mut = (m = "map_mut")
    /\ cells[c] # NoCell
    /\ f \in (IF mut THEN MutOps ELSE ImmOps)
    /\ LET x == TokenCell_map(c, f, mut)
       IN maps' = [maps EXCEPT ![m] = [cell |-> x.cell, f |-> x.f, mut |-> x.mut,
                                        made |-> cells[c].inner]]
    /\ cells' = [cells EXCEPT ![c].inner = TokenCell_map_effect(cells[c], f)]
    /\ mapLog' = [mapLog EXCEPT ![m] = NoLog]
    /\ lastOp' = [Op(IF mut THEN "map_mut" ELSE "map", t, -1, c, Ok(UnitId))
                    EXCEPT !.map = m, !.f = f]
    /\ UNCHANGED <<COUNTER, AVAILABLE, tokens, borrows, nextSerial, otherStatics>>

\* The effect of an apply or try_apply outcome `r` of the map in place m.
Applied(t, name, m, k, r) ==
    LET c == maps[m].cell
    IN /\ cells' = [cells EXCEPT ![c] =
                      [@ EXCEPT !.inner = r.inner,
                                !.written = IF r.result.ok /\ maps[m].mut
                                            THEN r.inner ELSE @,
                                !.denied = @ \/ ~r.result.ok]]
       /\ maps' = [maps EXCEPT ![m] = IF r.back THEN @ ELSE NoMap]
       /\ mapLog' = [mapLog EXCEPT ![m] =
                      [@ EXCEPT !.runs = IF r.ran THEN @ + 1 ELSE @,
                                !.tries = IF r.result.ok THEN @ ELSE @ + 1]]
       /\ lastOp' = [Op(name, t, k.serial, c, r.result)
                       EXCEPT !.map = m, !.f = maps[m].f, !.made = maps[m].made]
       /\ UNCHANGED <<COUNTER, AVAILABLE, tokens, borrows, nextSerial, otherStatics>>

\* map.try_apply(&k), map a TokenMap.
TryApply(t, m, k) ==
    /\ maps[m] # NoMap /\ ~maps[m].mut
    /\ cells[maps[m].cell].kind = k.kind
    /\ \A b \in BorrowsOfToken(k) : ~b.mut
    /\ LET r == TokenMap_try_apply(maps[m], cells[maps[m].cell], k)
       IN /\ r.result.ok \/ mapLog[m].tries < MaxRetries
          /\ Applied(t, "try_apply", m, k, r)

\* map.try_apply(&mut k), map a TokenMapMut.
TryApplyMut(t, m, k) ==
    /\ maps[m] # NoMap /\ maps[m].mut
    /\ cells[maps[m].cell].kind = k.kind
    /\ k.owner = t /\ BorrowsOfToken(k) = {}
    /\ LET r == TokenMapMut_try_apply(maps[m], cells[maps[m].cell], k)
       IN /\ r.result.ok \/ mapLog[m].tries < MaxRetries
          /\ Applied(t, "try_apply_mut", m, k, r)

\* map.apply(&k) / map.apply(&mut k): only for a Token whose ComparisonError
\* is Infallible.
Apply(t, m, k) ==
    /\ maps[m] # NoMap
    /\ cells[maps[m].cell].kind = k.kind
    /\ k.kind # "runtime"
    /\ IF maps[m].mut THEN k.owner = t /\ BorrowsOfToken(k) = {}
       ELSE \A b \in BorrowsOfToken(k) : ~b.mut
    /\ Applied(t, IF maps[m].mut THEN "apply_mut" ELSE "apply", m, k,
               TokenMap_apply(maps[m], cells[maps[m].cell], k, maps[m].made))

\* The map value goes out of scope unapplied.
MapDiscard(t, m) ==
    /\ maps[m] # NoMap
    /\ maps' = [maps EXCEPT ![m] = NoMap]
    /\ lastOp' = [Op("discard", t, -1, maps[m].cell, Ok(UnitId))
                    EXCEPT !.map = m, !.f = maps[m].f]
    /\ UNCHANGED <<COUNTER, AVAILABLE, tokens, cells, borrows, mapLog, nextSerial, otherStatics>>

\* ------------------------------------------------------------------ singleton lease
Init ==
    /\ COUNTER = 0
    /\ AVAILABLE = TRUE
    /\ otherStatics = NoStatics
    /\ tokens = {}
    /\ cells = [c \in CellIds |-> NoCell]
    /\ borrows = {}
    /\ maps = [m \in MapIds |-> NoMap]
    /\ mapLog = [m \in MapIds |-> NoLog]
    /\ nextSerial = 0
    /\ lastOp = Op("init", MainThread, -1, 0, Ok(UnitId))

\* Threads sharing cells keyed by one singleton_token kind.
NextLease ==
    \/ \E t \in Threads : SingletonNew(t)
    \/ \E k \in tokens : TokenDrop(k)
    \/ \E t \in Threads, k \in tokens, c \in CellIds, v \in Values : CellNew(t, k, c, v)
    \/ \E t \in Threads, k \in tokens, c \in CellIds, g \in BOOLEAN : TryShared(t, k, c, g)
    \/ \E t \in Threads, k \in tokens, c \in CellIds, g \in BOOLEAN : TryMut(t, k, c, g)
    \/ \E b \in borrows, v \in Values : Write(b, v)
    \/ \E b \in borrows : Read(b)
    \/ \E b \in borrows : EndBorrow(b)

SpecLease == Init /\ [][NextLease]_vars

\* ------------------------------------------------------------------ runtime-counted cells
\* The program after 65535 constructions of the runtime_token kind, of which
\* the first instance (identifier 0) is still alive.
InitWrapped ==
    /\ COUNTER = WrapStart
    /\ AVAILABLE = TRUE
    /\ otherStatics = NoStatics
    /\ tokens = {[kind |-> "runtime", id |-> 0, serial |-> 0, owner |-> MainThread]}
    /\ cells = [c \in CellIds |-> NoCell]
    /\ borrows = {}
    /\ maps = [m \in MapIds |-> NoMap]
    /\ mapLog = [m \in MapIds |-> NoLog]
    /\ nextSerial = WrapStart
    /\ lastOp = Op("init", MainThread, -1, 0, Ok(UnitId))

\* One thread, one place for a cell, tokens of one runtime_token kind.
NextCells ==
    \/ RuntimeNew(MainThread)
    \/ \E k \in tokens : TokenDrop(k)
    \/ \E k \in tokens, v \in Values : CellNew(MainThread, k, 1, v)
    \/ \E k \in tokens, g \in BOOLEAN : TryShared(MainThread, k, 1, g)
    \/ \E k \in tokens, g \in BOOLEAN : TryMut(MainThread, k, 1, g)
    \/ \E b \in borrows, v \in Values : Write(b, v)
    \/ \E b \in borrows : Read(b)
    \/ \E b \in borrows : EndBorrow(b)
    \/ \E v \in Values : GetMut(MainThread, 1, v)
    \/ IntoInner(MainThread, 1)
    \/ \E k \in tokens : BorrowShared(MainThread, k, 1)
    \/ \E k \in tokens : BorrowMut(MainThread, k, 1)
    \/ \E b \in borrows, m \in BOOLEAN : GuardToken(b, m)

SpecCells == (Init \/ InitWrapped) /\ [][NextCells]_vars

\* ------------------------------------------------------------------ maps
\* The program after `let t1 = K::new(); let t2 = K::new(); let u = U::new();`
\* with K a runtime_token kind and U an unsafe_token kind.
InitMaps ==
    /\ COUNTER = 2
    /\ AVAILABLE = TRUE
    /\ otherStatics = NoStatics
    /\ tokens = {[kind |-> "runtime", id |-> 0, serial |-> 0, owner |-> MainThread],
                 [kind |-> "runtime", id |-> 1, serial |-> 1, owner |-> MainThread],
                 [kind |-> "unsafe", id |-> UnitId, serial |-> 2, owner |-> MainThread]}
    /\ cells = [c \in CellIds |-> NoCell]
    /\ borrows = {}
    /\ maps = [m \in MapIds |-> NoMap]
    /\ mapLog = [m \in MapIds |-> NoLog]
    /\ nextSerial = 3
    /\ lastOp = Op("init", MainThread, -1, 0, Ok(UnitId))

\* One thread, one place for a cell, a TokenMap and a TokenMapMut on it, and
\* at most one `&mut T` at a time.
NextMaps ==
    \/ \E k \in tokens, v \in Values : CellNew(MainThread, k, 1, v)
    \/ \E k \in tokens : borrows = {} /\ TryMut(MainThread, k, 1, FALSE)
    \/ \E b \in borrows, v \in Values : Write(b, v)
    \/ \E b \in borrows : EndBorrow(b)
    \/ \E v \in Values : GetMut(MainThread, 1, v)
    \/ IntoInner(MainThread, 1)
    \/ \E m \in MapIds, f \in ImmOps \cup MutOps, mut \in BOOLEAN :
          MapNew(MainThread, m, 1, f, mut)
    \/ \E m \in MapIds, k \in tokens : TryApply(MainThread, m, k)
    \/ \E m \in MapIds, k \in tokens : TryApplyMut(MainThread, m, k)
    \/ \E m \in MapIds, k \in tokens : Apply(MainThread, m, k)
    \/ \E m \in MapIds : MapDiscard(MainThread, m)

SpecMaps == InitMaps /\ [][NextMaps]_vars

\* ------------------------------------------------------------------ scoped construction
\* One thread constructing tokens of a runtime_token kind, a singleton_token
\* kind, an unsafe_token kind and GhostToken, by new and by with_token.
NextScoped ==
    \/ \E kind \in {"runtime", "singleton", "unsafe", "ghost"}, body \in Bodies :
          WithToken(MainThread, kind, body)
    \/ SingletonNew(MainThread)
    \/ RuntimeNew(MainThread)
    \/ UnsafeNew(MainThread)
    \/ GhostNew(MainThread)
    \/ \E k \in tokens : TokenDrop(k)

SpecScoped == Init /\ [][NextScoped]_vars

\* ------------------------------------------------------------------ the lease as a lock
\* Threads that each loop on S::new() until it succeeds, access the shared
\* cell through the token and drop it.  The accesses are plain loads and
\* stores; the flag is swapped and stored with Ordering::Relaxed.  Each
\* thread uses the token it has acquired itself: nothing but the flag
\* orders the threads' accesses.
NextSpin ==
    \/ \E t \in Threads : SingletonNew(t)
    \/ \E k \in tokens : TokenDrop(k)
    \/ \E k \in tokens, v \in Values : CellNew(k.owner, k, 1, v)
    \/ \E k \in tokens : TryShared(k.owner, k, 1, FALSE)
    \/ \E k \in tokens : TryMut(k.owner, k, 1, FALSE)
    \/ \E b \in borrows, v \in Values : WriteLate(b, v)
    \/ Land(1)
    \/ \E b \in borrows : Read(b)
    \/ \E b \in borrows : EndBorrow(b)

SpecSpin == Init /\ [][NextSpin]_vars

\* ------------------------------------------------------------------ unchecked tokens
\* Threads constructing tokens of one unsafe_token kind and sharing a cell
\* keyed by it.
NextUnchecked ==
    \/ \E t \in Threads : UnsafeNew(t)
    \/ \E k \in tokens : TokenDrop(k)
    \/ \E t \in Threads, k \in tokens, v \in Values : CellNew(t, k, 1, v)
    \/ \E t \in Threads, k \in tokens, g \in BOOLEAN : TryShared(t, k, 1, g)
    \/ \E t \in Threads, k \in tokens, g \in BOOLEAN : TryMut(t, k, 1, g)
    \/ \E b \in borrows, v \in Values : Write(b, v)
    \/ \E b \in borrows : Read(b)
    \/ \E b \in borrows : EndBorrow(b)

SpecUnchecked == Init /\ [][NextUnchecked]_vars

\* ------------------------------------------------------------------ the singleton token of lib.rs
\* Threads sharing cells keyed by one kind declared with the singleton_token
\* macro of lib.rs.  The try_borrow and try_borrow_mut of lib.rs build the
\* guards that try_guard and try_guard_mut build in core.rs.
NextLib ==
    \/ \E t \in Threads : LibSingletonNew(t)
    \/ \E k \in tokens : TokenDrop(k)
    \/ \E t \in Threads, k \in tokens, c \in CellIds, v \in Values : CellNew(t, k, c, v)
    \/ \E t \in Threads, k \in tokens, c \in CellIds : TryShared(t, k, c, TRUE)
    \/ \E t \in Threads, k \in tokens, c \in CellIds : TryMut(t, k, c, TRUE)
    \/ \E b \in borrows, v \in Values : Write(b, v)
    \/ \E b \in borrows : Read(b)
    \/ \E b \in borrows : EndBorrow(b)

SpecLib == Init /\ [][NextLib]_vars

\* ------------------------------------------------------------------ ghost tokens
\* One thread running nested and successive GhostToken::with_token calls,
\* whose closures make cells with their instance and access the cells of
\* the closures around them.
NextGhost ==
    \/ GhostEnter(MainThread)
    \/ \E k \in tokens : GhostExit(k)
    \/ \E k \in tokens, c \in CellIds, v \in Values : CellNew(MainThread, k, c, v)
    \/ \E k \in tokens, c \in CellIds : TypedTryShared(MainThread, k, c)
    \/ \E k \in tokens, c \in CellIds : TypedTryMut(MainThread, k, c)
    \/ \E k \in tokens, c \in CellIds : TypedBorrowMut(MainThread, k, c)
    \/ \E b \in borrows, v \in Values : Write(b, v)
    \/ \E b \in borrows : Read(b)
    \/ \E b \in borrows : EndBorrow(b)

SpecGhost == Init /\ [][NextGhost]_vars

\* ------------------------------------------------------------------ the counter
\* Threads constructing and dropping tokens of one runtime_token kind, by
\* new and by with_token, from the start of the program or from its 65536th
\* construction on.
NextCounter ==
    \/ \E t \in Threads : RuntimeNew(t)
    \/ \E t \in Threads, body \in Bodies : WithToken(t, "runtime", body)
    \/ \E k \in tokens : TokenDrop(k)

SpecCounter == (Init \/ InitWrapped) /\ [][NextCounter]_vars

\* ------------------------------------------------------------------ cells and maps together
\* One thread, the tokens of InitMaps, one place for a cell, and every
\* fallible access to it: the try_* calls of the cell and the try_apply of
\* a TokenMap and of a TokenMapMut on it.
NextFrame ==
    \/ \E k \in tokens, v \in Values : CellNew(MainThread, k, 1, v)
    \/ \E k \in tokens, g \in BOOLEAN : TryShared(MainThread, k, 1, g)
    \/ \E k \in tokens, g \in BOOLEAN : TryMut(MainThread, k, 1, g)
    \/ \E b \in borrows, v \in Values : Write(b, v)
    \/ \E b \in borrows : EndBorrow(b)
    \/ \E v \in Values : GetMut(MainThread, 1, v)
    \/ IntoInner(MainThread, 1)
    \/ \E m \in MapIds, f \in ImmOps \cup MutOps, mut \in BOOLEAN :
          MapNew(MainThread, m, 1, f, mut)
    \/ \E m \in MapIds, k \in tokens : TryApply(MainThread, m, k)
    \/ \E m \in MapIds, k \in tokens : TryApplyMut(MainThread, m, k)
    \/ \E m \in MapIds : MapDiscard(MainThread, m)

SpecFrame == InitMaps /\ [][NextFrame]_vars

\* ------------------------------------------------------------------ several kinds
\* Threads constructing and dropping tokens of two runtime_token kinds K and
\* K2 and of two singleton_token kinds S and S2.
FirstKinds == {"runtime", "singleton"}

NextKinds ==
    \/ \E t \in Threads : RuntimeNew(t)
    \/ \E t \in Threads : SingletonNew(t)
    \/ \E k \in tokens : k.kind \in FirstKinds /\ TokenDrop(k)
    \/ \E t \in Threads : SecondRuntimeNew(t)
    \/ \E t \in Threads : SecondSingletonNew(t)
    \/ \E k \in tokens : SecondDrop(k)

SpecKinds == Init /\ [][NextKinds]_vars

\* ------------------------------------------------------------------ claims on the singleton lease
\* C1: under every interleaving of new() and drop by the threads, at most one
\* instance of a singleton_token kind is alive at any instant.
C1_AtMostOneSingletonAlive == Cardinality(KindTokens("singleton")) <= 1

\* A second instance is alive, in thread B, after the first one was dropped.
C1_Witness ==
    /\ lastOp.op = "new" /\ lastOp.res.ok /\ lastOp.by = "B"
    /\ \E k \in KindTokens("singleton") : k.serial >= 1 /\ k.owner = "B"

\* C2: a new() returns Ok exactly when no instance of the kind is alive at the
\* call, and Err(SingletonUnavailable) otherwise, in every acquire/drop round.
C2_NewOkIffNoneAlive ==
    [][lastOp'.op = "new" =>
        /\ lastOp'.res.ok <=> (KindTokens("singleton") = {})
        /\ ~lastOp'.res.ok => lastOp'.res.err = SingletonUnavailable]_vars

\* In a later round, with the lease held, a new() has just failed.
C2_Witness ==
    /\ nextSerial >= 2
    /\ KindTokens("singleton") # {}
    /\ lastOp.op = "new" /\ ~lastOp.res.ok

TryOps == {"try_borrow", "try_borrow_mut", "try_guard", "try_guard_mut"}

\* C3: any two distinct live instances of a runtime_token kind have different
\* identifiers, after any number of constructions.
C3_DistinctInstancesDistinctIds ==
    \A a \in KindTokens("runtime"), b \in KindTokens("runtime") :
        a.serial # b.serial => identifier(a) # identifier(b)

\* C4: on a cell of a runtime_token kind, each try_* call with the token the
\* cell was made with returns Ok; with a token whose identifier differs from
\* the cell's it returns Err(IdMismatch{cell, token}) carrying the cell's
\* stored identifier (the maker's) and the presented token's, and leaves no
\* reference into the cell; an Ok gives access to the cell's value.
C4_TryChecksIdentifier ==
    (lastOp.op \in TryOps /\ cells[lastOp.cell].kind = "runtime") =>
        LET c == cells[lastOp.cell]
            k == TokenOf(lastOp.tok)
        IN /\ k.serial = c.maker => lastOp.res.ok
           /\ identifier(k) # c.token_id =>
                /\ lastOp.res = Err(IdMismatch(c.token_id, identifier(k)))
                /\ \A b \in BorrowsOfCell(lastOp.cell) : b.tok # k.serial
           /\ Live(c.maker) => c.token_id = identifier(TokenOf(c.maker))
           /\ lastOp.res.ok =>
                /\ lastOp.res.val = c.inner
                /\ \E b \in BorrowsOfCell(lastOp.cell) :
                       b.tok = k.serial /\ b.mut = (lastOp.op \in {"try_borrow_mut", "try_guard_mut"})

\* t1, t2 are the first two tokens, cell = new(10, &t1), and
\* try_borrow_mut(&mut t2) has returned Err{cell: 0, token: 1}.
C4_Witness ==
    /\ lastOp.op = "try_borrow_mut"
    /\ lastOp.res = Err(IdMismatch(0, 1))
    /\ cells[lastOp.cell].inner = 10 /\ cells[lastOp.cell].maker = 0
    /\ \E k \in tokens : k.serial = 0 /\ k.id = 0

\* C6: a cell of a runtime_token kind is unlocked only by the instance it was
\* made with, so every live borrow of it is held through that instance.
C6_OnlyMakerUnlocks ==
    /\ (lastOp.op \in TryOps /\ lastOp.res.ok) => lastOp.tok = cells[lastOp.cell].maker
    /\ \A b \in borrows : b.tok = cells[b.cell].maker

\* C7: into_inner returns the value last written through a successful mutable
\* access (a `&mut T`, a mutable guard, get_mut), or the value given to new.
C7_IntoInnerIsLastWrite ==
    lastOp.op = "into_inner" => lastOp.res = Ok(lastOp.was.written)

\* cell = new(.., &t1), a try_* with another token failed, 20 was written
\* through t1's mutable borrow, and into_inner() returned 20.
C7_Witness ==
    /\ lastOp.op = "into_inner" /\ lastOp.res = Ok(20)
    /\ lastOp.was.denied /\ lastOp.was.token_id = 0 /\ lastOp.was.maker = 0

\* ------------------------------------------------------------------ claims on maps
ApplyOps == {"apply", "apply_mut", "try_apply", "try_apply_mut"}

\* C8: when the comparison of the cell and the token succeeds, apply and
\* try_apply return what the operation returns on a direct guard of the cell
\* with that token, and leave the cell as the operation leaves it; when it
\* fails, try_apply returns the error try_guard returns, and the operation
\* does not run.
C8_ApplyEqualsDirect ==
    [][lastOp'.op \in ApplyOps =>
        LET m == lastOp'.map
            c == lastOp'.cell
            g == IF lastOp'.op \in {"apply_mut", "try_apply_mut"}
                 THEN try_guard_mut(cells[c], TokenOf(lastOp'.tok))
                 ELSE try_guard(cells[c], TokenOf(lastOp'.tok))
            direct == ApplyOp(lastOp'.f, g.val)
        IN IF g.ok
           THEN /\ lastOp'.res = Ok(direct.ret)
                /\ cells'[c].inner = direct.inner
                /\ mapLog'[m].runs = mapLog[m].runs + 1
           ELSE /\ lastOp'.res = Err(g.err)
                /\ cells'[c].inner = cells[c].inner
                /\ mapLog'[m].runs = mapLog[m].runs]_vars

\* An apply on a cell of the unsafe kind has returned the value written to the
\* cell after the map was made.
C8_Witness ==
    /\ lastOp.op = "apply" /\ lastOp.f = "plus_one"
    /\ lastOp.res = Ok(21) /\ lastOp.made = 10
    /\ cells[lastOp.cell].kind = "unsafe"

\* C9: a failed TokenMap::try_apply hands the map back unchanged without
\* running the operation, and the successful try_apply that follows any
\* number of failures runs it once and consumes the map; a failed
\* TokenMapMut::try_apply consumes the map, returns the error alone and does
\* not run the operation.
C9_RetryRunsOnce ==
    [][/\ \A m \in MapIds : mapLog'[m].runs <= 1
       /\ (lastOp'.op = "try_apply" /\ ~lastOp'.res.ok) =>
            /\ maps'[lastOp'.map] = maps[lastOp'.map]
            /\ maps'[lastOp'.map] # NoMap
            /\ mapLog'[lastOp'.map].runs = 0
       /\ (lastOp'.op = "try_apply" /\ lastOp'.res.ok) =>
            /\ maps'[lastOp'.map] = NoMap
            /\ mapLog'[lastOp'.map].runs = 1
            /\ lastOp'.res.val = ApplyOp(lastOp'.f, cells[lastOp'.cell].inner).ret
       /\ (lastOp'.op = "try_apply_mut" /\ ~lastOp'.res.ok) =>
            /\ maps'[lastOp'.map] = NoMap
            /\ mapLog'[lastOp'.map].runs = 0
            /\ lastOp'.res.val = -1]_vars

\* The TokenMap was applied with success after two failed tries and its
\* operation ran once; the TokenMapMut failed once, is gone and never ran.
C9_Witness ==
    /\ lastOp.op = "try_apply" /\ lastOp.res.ok
    /\ mapLog["map"].tries >= 2 /\ mapLog["map"].runs = 1 /\ maps["map"] = NoMap
    /\ mapLog["map_mut"].tries = 1 /\ mapLog["map_mut"].runs = 0
    /\ maps["map_mut"] = NoMap

\* C10: map and map_mut change no cell, token or borrow and run nothing; the
\* operation of a map runs only in an apply or try_apply of that map, at most
\* once, not at all once the map is discarded, and on the value the cell holds
\* when it is applied.
C10_MapIsDeferred ==
    [][/\ lastOp'.op \in {"map", "map_mut"} =>
            /\ cells' = cells /\ tokens' = tokens /\ borrows' = borrows
            /\ COUNTER' = COUNTER /\ AVAILABLE' = AVAILABLE
            /\ mapLog'[lastOp'.map].runs = 0
       /\ \A m \in MapIds :
            /\ mapLog'[m].runs <= 1
            /\ mapLog'[m].runs > mapLog[m].runs =>
                 /\ lastOp'.op \in ApplyOps /\ lastOp'.map = m
                 /\ maps[m] # NoMap
       /\ lastOp'.op = "discard" => (cells' = cells /\ mapLog' = mapLog)
       /\ (lastOp'.op \in ApplyOps /\ lastOp'.res.ok) =>
            LET now == ApplyOp(lastOp'.f, cells[lastOp'.cell].inner)
            IN /\ lastOp'.res.val = now.ret
               /\ cells'[lastOp'.cell].inner = now.inner]_vars

\* As in example.rs: the map_mut was made when the cell held 10, the cell was
\* then set to 20, and apply has returned 20 and written the cell.
C10_Witness ==
    /\ lastOp.op = "apply_mut" /\ lastOp.f = "take10"
    /\ lastOp.made = 10 /\ lastOp.res = Ok(20)
    /\ cells[lastOp.cell].inner = 10

\* ------------------------------------------------------------------ claims on scoped construction
\* C11 as stated: for every closure, a new() of a singleton_token kind that
\* comes right after a with_token of that kind has returned Ok succeeds.
C11_WithTokenReleasesLease ==
    [][(/\ lastOp.op = "with_token" /\ lastOp.kind = "singleton" /\ lastOp.res.ok
        /\ lastOp'.op = "new" /\ lastOp'.kind = "singleton")
       => lastOp'.res.ok]_vars

\* C11 amended: when the closure lets the instance it was given go out of
\* scope (it neither returns nor forgets it), the lease is free again once
\* with_token has returned Ok, no instance of the kind is left, and a new()
\* that comes right after succeeds.
C11_WithTokenReleasesLeaseWhenBodyDrops ==
    [][/\ (/\ lastOp'.op = "with_token" /\ lastOp'.kind = "singleton" /\ lastOp'.res.ok
           /\ BodyOp(lastOp'.f, UnitId).fate = "dropped")
          => (AVAILABLE' /\ tokens' = tokens /\ lastOp'.ran = 1)
       /\ (/\ lastOp.op = "with_token" /\ lastOp.kind = "singleton" /\ lastOp.res.ok
           /\ BodyOp(lastOp.f, UnitId).fate = "dropped"
           /\ lastOp'.op = "new" /\ lastOp'.kind = "singleton")
          => lastOp'.res.ok]_vars

\* A with_token of the singleton kind has returned Ok(7) in a later round
\* and the lease is free.
C11_Witness ==
    /\ lastOp.op = "with_token" /\ lastOp.kind = "singleton"
    /\ lastOp.res = Ok(7) /\ lastOp.tok >= 1
    /\ AVAILABLE /\ KindTokens("singleton") = {}

\* C12: a with_token of a runtime_token, singleton_token or unsafe_token kind
\* returns, and leaves the kind's counter or flag, as new() followed by one
\* invocation of the closure on the new instance does: Ok of what the closure
\* returns; when new() fails it returns new()'s error, the closure is not
\* invoked and no instance appears.
C12_WithTokenIsNewThenBody ==
    [][(lastOp'.op = "with_token" /\ lastOp'.kind \in {"runtime", "singleton", "unsafe"}) =>
        LET kind == lastOp'.kind
            n == CASE kind = "runtime"   -> runtime_token_new(COUNTER).result
                   [] kind = "singleton" -> singleton_token_new(AVAILABLE).result
                   [] kind = "unsafe"    -> unsafe_token_new
            b == BodyOp(lastOp'.f, n.val)
            flag == singleton_token_new(AVAILABLE).available
        IN /\ IF n.ok
              THEN /\ lastOp'.res = Ok(b.ret)
                   /\ lastOp'.ran = 1
                   /\ lastOp'.tok = nextSerial /\ nextSerial' = nextSerial + 1
                   /\ tokens' = IF b.fate = "returned"
                                THEN tokens \cup {[kind |-> kind, id |-> n.val,
                                                   serial |-> nextSerial,
                                                   owner |-> lastOp'.by]}
                                ELSE tokens
              ELSE /\ lastOp'.res = Err(n.err)
                   /\ lastOp'.ran = 0
                   /\ tokens' = tokens /\ nextSerial' = nextSerial
           /\ COUNTER' = IF kind = "runtime" THEN runtime_token_new(COUNTER).counter
                         ELSE COUNTER
           /\ AVAILABLE' = IF kind # "singleton" THEN AVAILABLE
                           ELSE IF n.ok /\ b.fate = "dropped"
                                THEN singleton_token_drop(flag) ELSE flag]_vars

\* A with_token of the singleton kind has failed with SingletonUnavailable
\* without invoking its closure, the lease being held.
C12_Witness ==
    /\ lastOp.op = "with_token" /\ lastOp.kind = "singleton"
    /\ lastOp.res = Err(SingletonUnavailable) /\ lastOp.ran = 0
    /\ KindTokens("singleton") # {}

\* C13: GhostToken::new() returns Err(()) in every state and builds nothing;
\* GhostToken::with_token invokes its closure once and returns Ok of what it
\* returns, in every state; neither changes the counter or the lease flag of
\* any kind.
C13_GhostNewFailsWithTokenRuns ==
    [][/\ (lastOp'.op = "new" /\ lastOp'.kind = "ghost") =>
            /\ lastOp'.res = Err(UnitError)
            /\ tokens' = tokens /\ nextSerial' = nextSerial
            /\ COUNTER' = COUNTER /\ AVAILABLE' = AVAILABLE
       /\ (lastOp'.op = "with_token" /\ lastOp'.kind = "ghost") =>
            /\ lastOp'.res = Ok(BodyOp(lastOp'.f, UnitId).ret)
            /\ lastOp'.ran = 1
            /\ lastOp'.tok = nextSerial
            /\ COUNTER' = COUNTER /\ AVAILABLE' = AVAILABLE]_vars

\* GhostToken::with_token has returned Ok(7) while the singleton lease is
\* held and the runtime counter has advanced.
C13_Witness ==
    /\ lastOp.op = "with_token" /\ lastOp.kind = "ghost" /\ lastOp.res = Ok(7)
    /\ ~AVAILABLE /\ COUNTER > 0

\* ------------------------------------------------------------------ claims on checked access
\* C14: borrow and borrow_mut give access to the cell's value exactly when
\* try_borrow / try_borrow_mut return Ok on the same cell and token, and panic
\* otherwise, leaving no reference and the cell's value and identifier as
\* they were; every live reference or guard was made with a token whose
\* comparison with the cell succeeds.
C14_BorrowPanicsOnMismatch ==
    [][/\ lastOp'.op \in {"borrow", "borrow_mut"} =>
            LET c == lastOp'.cell
                k == TokenOf(lastOp'.tok)
                mut == (lastOp'.op = "borrow_mut")
                t == IF mut THEN try_borrow_mut(cells[c], k) ELSE try_borrow(cells[c], k)
            IN /\ cells'[c].inner = cells[c].inner
               /\ cells'[c].token_id = cells[c].token_id
               /\ tokens' = tokens
               /\ IF t.ok
                  THEN /\ lastOp'.res = Ok(cells[c].inner)
                       /\ borrows' = borrows \cup {Borrow(c, k, lastOp'.by, mut, FALSE)}
                  ELSE /\ lastOp'.res = Err(Panic(t.err))
                       /\ borrows' = borrows
       /\ \A b \in borrows' :
            compare(CHOOSE k \in tokens' : k.serial = b.tok, cells'[b.cell].token_id).ok]_vars

\* cell = new(.., &t1) with t1 the first token, and cell.borrow_mut(&mut t2)
\* has panicked with IdMismatch{cell: 0, token: 1}, leaving no borrow.
C14_Witness ==
    /\ lastOp.op = "borrow_mut"
    /\ lastOp.res = Err(Panic(IdMismatch(0, 1)))
    /\ BorrowsOfCell(lastOp.cell) = {}
    /\ cells[lastOp.cell].maker = 0

\* C20: a guard is made exactly by a try_guard / try_guard_mut whose
\* comparison of the presented token with the cell succeeds, and holds that
\* token; reading through a guard returns the cell's value without any
\* comparison; token() and token_mut() return the token the guard was made
\* with; making or dropping a guard changes no cell, token, counter or flag.
C20_GuardIsProofOfComparison ==
    [][/\ \A b \in borrows' \ borrows : b.guard =>
            /\ lastOp'.op = (IF b.mut THEN "try_guard_mut" ELSE "try_guard")
            /\ lastOp'.res = Ok(cells[b.cell].inner)
            /\ b.cell = lastOp'.cell /\ b.tok = lastOp'.tok /\ b.by = lastOp'.by
            /\ compare(TokenOf(b.tok), cells[b.cell].token_id).ok
       /\ lastOp'.op \in {"try_guard", "try_guard_mut"} =>
            IF compare(TokenOf(lastOp'.tok), cells[lastOp'.cell].token_id).ok
            THEN Borrow(lastOp'.cell, TokenOf(lastOp'.tok), lastOp'.by,
                        lastOp'.op = "try_guard_mut", TRUE) \in borrows'
            ELSE borrows' = borrows /\ ~lastOp'.res.ok
       /\ \A b \in borrows' : b.guard =>
            /\ \E k \in tokens' : k.serial = b.tok
            /\ cells'[b.cell] # NoCell
       /\ (\E b \in (borrows' \ borrows) \cup (borrows \ borrows') : b.guard) =>
            /\ \A c \in CellIds : /\ cells'[c].token_id = cells[c].token_id
                                   /\ cells'[c].inner = cells[c].inner
            /\ tokens' = tokens
            /\ COUNTER' = COUNTER /\ AVAILABLE' = AVAILABLE
       /\ lastOp'.op \in {"token", "token_mut"} =>
            /\ \E b \in borrows : /\ b.guard /\ b.tok = lastOp'.tok
                                  /\ b.cell = lastOp'.cell /\ b.by = lastOp'.by
                                  /\ lastOp'.op = "token_mut" => b.mut
            /\ lastOp'.res = Ok(identifier(TokenOf(lastOp'.tok)))
            /\ UNCHANGED <<COUNTER, AVAILABLE, tokens, cells, borrows>>
       /\ lastOp'.op = "read" =>
            /\ lastOp'.res = Ok(cells[lastOp'.cell].inner)
            /\ UNCHANGED <<COUNTER, AVAILABLE, tokens, cells, borrows>>]_vars

\* token_mut() on a mutable guard of a cell on which another token's
\* comparison has failed has returned the second token, the cell's maker.
C20_Witness ==
    /\ lastOp.op = "token_mut" /\ lastOp.tok = 1 /\ lastOp.res = Ok(1)
    /\ cells[lastOp.cell].denied /\ cells[lastOp.cell].maker = 1
    /\ \E b \in borrows : b.guard /\ b.mut /\ b.tok = 1

\* ------------------------------------------------------------------ more claims on the singleton lease
\* C15: a new() on a held lease is one step that returns
\* Err(SingletonUnavailable) and changes nothing: the flag was and stays
\* unavailable, the holder stays the only live instance, no cell or borrow
\* changes; and the drop of the holder makes the lease available.
C15_FailedNewChangesNothing ==
    [][/\ (/\ lastOp'.op = "new" /\ lastOp'.kind = "singleton"
           /\ KindTokens("singleton") # {}) =>
            /\ lastOp'.res = Err(SingletonUnavailable)
            /\ ~AVAILABLE /\ ~AVAILABLE'
            /\ tokens' = tokens /\ Cardinality(KindTokens("singleton")) = 1
            /\ cells' = cells /\ borrows' = borrows /\ nextSerial' = nextSerial
       /\ (lastOp'.op = "drop" /\ lastOp'.kind = "singleton") =>
            /\ AVAILABLE'
            /\ tokens' = {}]_vars

\* Thread B's new() has just failed while thread A holds the lease and a
\* mutable borrow made with it.
C15_Witness ==
    /\ lastOp.op = "new" /\ lastOp.by = "B" /\ lastOp.res = Err(SingletonUnavailable)
    /\ ~AVAILABLE
    /\ \E k \in KindTokens("singleton") :
          k.owner = "A" /\ \E b \in BorrowsOfToken(k) : b.mut /\ b.by = "A"

\* ------------------------------------------------------------------ claims on unchecked tokens
\* C16: new() of an unsafe_token kind returns Ok whatever instances are
\* alive and touches no counter or flag; every try_* on a cell of the kind
\* returns Ok and gives the access asked for, whichever instance of the kind
\* is presented.
C16_UncheckedAlwaysUnlocks ==
    [][/\ (lastOp'.op = "new" /\ lastOp'.kind = "unsafe") =>
            /\ lastOp'.res = Ok(UnitId)
            /\ tokens' = tokens \cup {[kind |-> "unsafe", id |-> UnitId,
                                        serial |-> nextSerial, owner |-> lastOp'.by]}
            /\ COUNTER' = COUNTER /\ AVAILABLE' = AVAILABLE
       /\ (lastOp'.op \in TryOps /\ cells[lastOp'.cell].kind = "unsafe") =>
            /\ lastOp'.res = Ok(cells[lastOp'.cell].inner)
            /\ Borrow(lastOp'.cell, TokenOf(lastOp'.tok), lastOp'.by,
                      lastOp'.op \in {"try_borrow_mut", "try_guard_mut"},
                      lastOp'.op \in {"try_guard", "try_guard_mut"}) \in borrows'
            /\ ~cells'[lastOp'.cell].denied]_vars

\* Threads A and B, each with its own instance, both hold a mutable borrow
\* of the same cell, the second one just obtained.
C16_Witness ==
    /\ lastOp.op = "try_borrow_mut" /\ lastOp.res.ok
    /\ \E b1 \in borrows, b2 \in borrows :
          /\ b1.cell = b2.cell /\ b1.mut /\ b2.mut
          /\ b1.by = "A" /\ b2.by = "B" /\ b1.tok # b2.tok
          /\ TokenOf(b1.tok).owner = "A" /\ TokenOf(b2.tok).owner = "B"

\* ------------------------------------------------------------------ claims on the singleton token of lib.rs
\* C18: a new() of a kind declared with lib.rs's singleton_token returns Ok
\* whenever no instance of the kind is alive, in particular after the live
\* instance was dropped.
C18_LibSingletonDropReleases ==
    [][(/\ lastOp'.op = "new" /\ lastOp'.kind = "lib_singleton"
        /\ KindTokens("lib_singleton") = {})
       => lastOp'.res.ok]_vars

\* ------------------------------------------------------------------ claims on access by ownership
\* C19: get_mut and into_inner can be called on every cell that is not
\* borrowed, whatever tokens are alive; they compare nothing and change no
\* token or counter; get_mut writes the value that token-gated borrows then
\* see, and into_inner returns the cell's value and consumes the cell.
C19_OwnershipNeedsNoToken ==
    [][/\ \A c \in CellIds :
            (cells[c] # NoCell /\ BorrowsOfCell(c) = {} /\ MapsOfCell(c) = {}) =>
                /\ ENABLED IntoInner(MainThread, c)
                /\ \A v \in Values : ENABLED GetMut(MainThread, c, v)
       /\ lastOp'.op = "get_mut" =>
            /\ lastOp'.res.ok
            /\ cells'[lastOp'.cell].inner = lastOp'.res.val
            /\ cells'[lastOp'.cell].token_id = cells[lastOp'.cell].token_id
            /\ cells'[lastOp'.cell].denied = cells[lastOp'.cell].denied
            /\ tokens' = tokens /\ COUNTER' = COUNTER /\ AVAILABLE' = AVAILABLE
       /\ lastOp'.op = "into_inner" =>
            /\ lastOp'.res = Ok(cells[lastOp'.cell].inner)
            /\ cells'[lastOp'.cell] = NoCell
            /\ tokens' = tokens /\ COUNTER' = COUNTER /\ AVAILABLE' = AVAILABLE
       /\ (lastOp'.op \in TryOps \cup {"borrow", "borrow_mut"} /\ lastOp'.res.ok) =>
            lastOp'.res.val = cells[lastOp'.cell].written]_vars

\* get_mut has written 20 to a cell whose constructing token is gone, while
\* the only live token has failed to unlock it.
C19_Witness ==
    /\ lastOp.op = "get_mut" /\ lastOp.res = Ok(20)
    /\ cells[lastOp.cell].inner = 20 /\ cells[lastOp.cell].denied
    /\ ~Live(cells[lastOp.cell].maker)
    /\ tokens # {}
    /\ \A k \in tokens : ~compare(k, cells[lastOp.cell].token_id).ok

\* ------------------------------------------------------------------ claims on the lease as a lock
\* C17: the critical sections of threads that loop on new(), access the
\* cell and drop the token never overlap: at most one thread holds the
\* token, and while a store that a thread issued in its critical section is
\* still on its way to the cell, no other thread is in a critical section.
C17_CriticalSectionsNeverOverlap ==
    /\ Cardinality(KindTokens("singleton")) <= 1
    /\ \A c \in CellIds :
          cells[c].writer # "none" =>
              \A k \in KindTokens("singleton") : k.owner = cells[c].writer

\* C24: a cell made under an instance of a singleton_token kind stays usable
\* after that instance is dropped: every try_borrow and try_borrow_mut with
\* a later instance returns Ok, and a read through a later instance gives
\* the value last written to the cell.
C24_CellOutlivesInstance ==
    /\ (/\ lastOp.op \in {"try_borrow", "try_borrow_mut"}
        /\ cells[lastOp.cell].kind = "singleton") => lastOp.res.ok
    /\ (/\ lastOp.op = "read"
        /\ cells[lastOp.cell].kind = "singleton"
        /\ lastOp.tok # cells[lastOp.cell].maker) =>
            lastOp.res = Ok(cells[lastOp.cell].written)

\* ------------------------------------------------------------------ claims on ghost tokens
AccessOps == TryOps \cup {"borrow", "borrow_mut"}

\* C21: a cell made with the token of one GhostToken::with_token invocation
\* is never unlocked by the token of another invocation, nested or
\* successive: every access to such a cell, and every reference into it, is
\* made with the token the cell was made with.
C21_GhostCellUnlockedByOwnInvocationOnly ==
    /\ \A b \in borrows :
          cells[b.cell].kind = "ghost" => b.tok = cells[b.cell].maker
    /\ (lastOp.op \in AccessOps /\ cells[lastOp.cell].kind = "ghost") =>
          lastOp.tok = cells[lastOp.cell].maker

\* Inside a second inner invocation, the inner closure holds a reference
\* into its own cell and has just borrowed the outer closure's cell with
\* the outer token.
C21_Witness ==
    /\ Cardinality(KindTokens("ghost")) = 2
    /\ \E k \in KindTokens("ghost") : k.serial = 2
    /\ cells[1].kind = "ghost" /\ cells[2].kind = "ghost"
    /\ cells[1].maker # cells[2].maker
    /\ lastOp.op = "borrow_mut" /\ lastOp.res.ok
    /\ cells[lastOp.cell].maker < 2
    /\ \E b \in borrows : cells[b.cell].maker = 2 /\ b.tok = 2

\* ------------------------------------------------------------------ claims on the counter
\* C22: new() of a runtime_token kind never fails; under every interleaving
\* of the threads' calls, each call returns the counter's value as the
\* identifier and advances the counter by one, so that the call number i
\* (from 0, i below 2^16) gets the identifier i; and a live token keeps its
\* identifier.
C22_NewTakesNextIdentifier ==
    [][/\ (lastOp'.op = "new" /\ lastOp'.kind = "runtime") =>
            /\ lastOp'.res.ok
            /\ lastOp'.res.val = COUNTER
            /\ COUNTER' = (COUNTER + 1) % U16Modulus
            /\ nextSerial' = nextSerial + 1
            /\ nextSerial < U16Modulus => lastOp'.res.val = nextSerial
            /\ \E k \in tokens' \ tokens :
                  /\ k.serial = nextSerial
                  /\ identifier(k) = lastOp'.res.val
       /\ \A k \in tokens' :
            (k.kind = "runtime" /\ k.serial < U16Modulus) => identifier(k) = k.serial
       /\ \A k \in tokens, j \in tokens' :
            j.serial = k.serial => identifier(j) = identifier(k)]_vars

\* Thread B's new() has just returned the identifier 2 while thread A holds
\* the token of identifier 1.
C22_Witness ==
    /\ lastOp.op = "new" /\ lastOp.kind = "runtime"
    /\ lastOp.by = "B" /\ lastOp.res = Ok(2)
    /\ \E k \in tokens : k.owner = "A" /\ identifier(k) = 1
    /\ \E k \in tokens : k.owner = "B" /\ identifier(k) = 2 /\ k.serial = 2

\* ------------------------------------------------------------------ claims on cells and maps together
FallibleOps == TryOps \cup {"try_apply", "try_apply_mut"}

\* C23: TokenCell::new stores the identifier of the token it is given, and
\* no later call changes the identifier a cell stores; a try_borrow,
\* try_borrow_mut, try_guard, try_guard_mut or try_apply that returns Err
\* leaves the cell's value, the cell's identifier and every token as they
\* were.
C23_CellIdentifierFixedAndFailureFrame ==
    [][/\ lastOp'.op = "cell_new" =>
            cells'[lastOp'.cell].token_id = identifier(TokenOf(lastOp'.tok))
       /\ \A c \in CellIds :
            (cells[c] # NoCell /\ cells'[c] # NoCell) =>
                cells'[c].token_id = cells[c].token_id
       /\ (lastOp'.op \in FallibleOps /\ ~lastOp'.res.ok) =>
            /\ cells'[lastOp'.cell].inner = cells[lastOp'.cell].inner
            /\ cells'[lastOp'.cell].token_id = cells[lastOp'.cell].token_id
            /\ tokens' = tokens
            /\ \E k \in tokens, j \in tokens' :
                  /\ k.serial = lastOp'.tok /\ j.serial = lastOp'.tok
                  /\ identifier(j) = identifier(k)]_vars

\* A try_apply of a TokenMapMut has just failed on a cell that was written
\* to after its construction with the token of identifier 1, and that has
\* failed a try_* call before.
C23_Witness ==
    /\ lastOp.op = "try_apply_mut" /\ ~lastOp.res.ok
    /\ cells[lastOp.cell].token_id = 1
    /\ cells[lastOp.cell].inner # lastOp.made
    /\ cells[lastOp.cell].denied
    /\ mapLog["map"].tries > 0

\* ------------------------------------------------------------------ claims on several kinds
\* C25: each declared kind has its own state.  A kind's counter or flag
\* changes only in a new() of that kind and, for the flag, in a drop of that
\* kind; and what a new() of a kind returns is decided by that kind's own
\* counter or flag: the identifier is the counter's value, and the result
\* is Ok exactly when the flag is set.
C25_EachKindItsOwnState ==
    [][/\ COUNTER' # COUNTER =>
            lastOp'.op = "new" /\ lastOp'.kind = "runtime"
       /\ otherStatics'.COUNTER # otherStatics.COUNTER =>
            lastOp'.op = "new" /\ lastOp'.kind = "runtime2"
       /\ AVAILABLE' # AVAILABLE =>
            lastOp'.op \in {"new", "drop"} /\ lastOp'.kind = "singleton"
       /\ otherStatics'.AVAILABLE # otherStatics.AVAILABLE =>
            lastOp'.op \in {"new", "drop"} /\ lastOp'.kind = "singleton2"
       /\ lastOp'.op = "new" =>
            CASE lastOp'.kind = "runtime" -> lastOp'.res = Ok(COUNTER)
              [] lastOp'.kind = "runtime2" -> lastOp'.res = Ok(otherStatics.COUNTER)
              [] lastOp'.kind = "singleton" -> lastOp'.res.ok = AVAILABLE
              [] lastOp'.kind = "singleton2" -> lastOp'.res.ok = otherStatics.AVAILABLE
              [] OTHER -> TRUE]_vars

\* K2::new() has just returned the identifier 0 after K::new() returned 0,
\* while the lease of S is held and that of S2 is free.
C25_Witness ==
    /\ lastOp.op = "new" /\ lastOp.kind = "runtime2" /\ lastOp.res = Ok(0)
    /\ COUNTER = 1 /\ otherStatics.COUNTER = 1
    /\ ~AVAILABLE /\ otherStatics.AVAILABLE
    /\ KindTokens("singleton") # {}

====
